---- MODULE Spec2Model ----
(***************************************************************************)
(* Verification model of keepers-jobs-monitor.                             *)
(*                                                                         *)
(*   JobMonitorService (src/src/services/job-monitor.ts): the block scan   *)
(*   getLastWorkedBlock, the two LRU/TTL caches, and the Promise.all       *)
(*   fan-out checkJobsEfficiently, as one task per job address that is     *)
(*   suspended at every await.                                             *)
(*                                                                         *)
(*   DiscordService (src/src/services/discord.ts): sendWithRetry with its  *)
(*   retry loop, its suspensions and the fallback send, which re-enters    *)
(*   sendWithRetry through sendSimpleMessage.                              *)
(*                                                                         *)
(*                                                                         *)
(*   SequencerService (src/unnamed/part_003): getAllJobs, with its batches *)
(*   of 20 lookups awaited by Promise.all, getAllJobsOptimized, and the    *)
(*   list cache.                                                           *)
(*                                                                         *)
(*   handler (src/unnamed/part_004): one invocation, which runs the three  *)
(*   services above and ends in a result.                                  *)
(*                                                                         *)
(* Time is counted in minutes (the TTLs are 2, 5 and 10 minutes).          *)
(***************************************************************************)
EXTENDS Integers, Sequences, FiniteSets, TLC

\* ------------------------------------------------------------------ bounds
MaxBlock == 1       \* Spec: block numbers are 0..MaxBlock
MaxTime == 3        \* Spec: the clock runs from 0 to MaxTime minutes
MaxJobs == 2        \* SpecBatch: longest job list of a batch
MaxDepth == 3       \* SpecDiscord: sendWithRetry calls nested through the fallback
MaxRegistry == 21   \* SpecSequencer: the longest job list of the contract
MaxRereads == 1     \* SpecCapacity: scans that come back to block 0
MaxStrategyBlock == 11  \* SpecStrategy: block numbers are 0..MaxStrategyBlock

\* --------------------------------------------------------- program constants
BLOCK_CACHE_MAX == 50
BLOCK_CACHE_TTL == 5
JOB_CACHE_MAX == 1000
JOB_CACHE_TTL == 2
STATUS_FRESH_MIN == 2
DEFAULT_BATCH_SIZE == 10
NULL == -1         \* JavaScript null in a `number | null` field

\* The 10-character prefix ethers.utils.id("work(bytes32,bytes)").slice(0, 10),
\* as a sequence of symbols.
WORK_SELECTOR == <<"w", "k">>

JobAddresses == {"a", "b"}   \* the jobs of a batch
ScanAddresses == {"a"}        \* the job of the single scans
NO_TO == "<none>"  \* tx.to of a contract creation (null)

\* String.prototype.toLowerCase on the addresses of the model.
ToLowerCase(s) == IF s = "A" THEN "a" ELSE IF s = "B" THEN "b" ELSE s

\* String.prototype.startsWith on symbol sequences.
StartsWith(data, prefix) ==
    /\ Len(data) >= Len(prefix)
    /\ SubSeq(data, 1, Len(prefix)) = prefix

\* Mutant: the recipient is compared without folding the case.
QualifiesCaseSensitive(tx, jobAddress) ==
    /\ tx.to # NO_TO
    /\ tx.to = jobAddress
    /\ StartsWith(tx.data, WORK_SELECTOR)

\* job-monitor.ts:88-91
Qualifies(tx, jobAddress) ==
    /\ tx.to # NO_TO
    /\ ToLowerCase(tx.to) = ToLowerCase(jobAddress)
    /\ StartsWith(tx.data, WORK_SELECTOR)

\* Transactions a block of the model chain may hold.
TxWorkA == [to |-> "A", data |-> <<"w", "k", "0">>]
TxWorkB == [to |-> "b", data |-> <<"w", "k">>]
TxOtherA == [to |-> "a", data |-> <<"w", "x">>]
TxCreate == [to |-> NO_TO, data |-> <<"w", "k">>]
BlockContents == { <<TxCreate, TxWorkB>>, <<TxOtherA, TxWorkA>> }

VARIABLES
    chain,           \* block number -> its transactions (the chain is immutable)
    now,             \* Date.now(), in minutes
    blockCache,      \* LRUCache<number, BlockCache>, least recently used first
    jobStatusCache,  \* LRUCache<string, JobStatus>, least recently used first
    call,            \* the getLastWorkedBlock / checkJobsEfficiently call under way
    tasks,           \* one async evaluation per job address of the call
    results,         \* the array Promise.all fills, by input index
    outOfOrder,      \* some task of the call settled before a task of lower index
    fetches,         \* provider.getBlockWithTransactions calls of this call, per block
    prev,            \* what the call before this one left, when this one repeats it
    blockAccess,     \* history: the keys blockCache.get hit or blockCache.set
                     \* stored since the last clear, the least recent first
    send,            \* the top-level sendWithRetry call: idle, running, returned, raised
    frames,          \* the nested sendWithRetry calls, the innermost last
    raised,          \* the error the top-level call raised
    registry,        \* the sequencer contract: jobAt(i) is registry[i + 1]
    seq,             \* the getAllJobs / getAllJobsOptimized call under way
    jobsCache,       \* LRUCache<string, string[]> of the SequencerService
    lookups,         \* contract.jobAt requests of this call, per index
    run,             \* the handler invocation
    strategy         \* the call of the strategy-based getLastWorkedBlock

monitorVars == <<strategy, chain, now, blockCache, jobStatusCache, call, tasks,
                 results, outOfOrder, fetches, prev, blockAccess>>
discordVars == <<send, frames, raised>>
sequencerVars == <<registry, seq, jobsCache, lookups>>
handlerVars == <<run>>
otherThanMonitor == <<discordVars, sequencerVars, handlerVars>>
otherThanDiscord == <<monitorVars, sequencerVars, handlerVars>>
otherThanStrategy == <<chain, now, blockCache, jobStatusCache, call, tasks,
                       results, outOfOrder, fetches, prev, blockAccess,
                       discordVars, sequencerVars, handlerVars>>
otherThanSequencer == <<strategy, chain, blockCache, jobStatusCache, call, tasks, results,
                        outOfOrder, fetches, prev, blockAccess, discordVars,
                        handlerVars>>
vars == <<monitorVars, discordVars, sequencerVars, handlerVars>>

\* ------------------------------------------------------------- lru-cache
\* An entry is [key, value, start]; the sequence runs from the least recently
\* used entry to the most recently used one.
CacheIndex(c, k) ==
    IF \E i \in 1..Len(c) : c[i].key = k
    THEN CHOOSE i \in 1..Len(c) : c[i].key = k
    ELSE 0

RemoveAt(c, i) == SubSeq(c, 1, i - 1) \o SubSeq(c, i + 1, Len(c))

\* Mutant: no entry ever counts as stale.
NeverStale(e, ttl, t) == FALSE

\* lru-cache isStale: the entry's age exceeds its ttl.
IsStale(e, ttl, t) == t - e.start > ttl

\* Mutant: a hit restarts the ttl of the entry (updateAgeOnGet).
CacheGetRefreshing(c, k, ttl, t) ==
    LET i == CacheIndex(c, k) IN
    IF i = 0 THEN [hit |-> FALSE, cache |-> c]
    ELSE IF IsStale(c[i], ttl, t) THEN [hit |-> FALSE, cache |-> RemoveAt(c, i)]
    ELSE [hit |-> TRUE, value |-> c[i].value,
          cache |-> Append(RemoveAt(c, i), [c[i] EXCEPT !.start = t])]

\* get: a stale entry is deleted and misses; a hit becomes the most recent.
CacheGet(c, k, ttl, t) ==
    LET i == CacheIndex(c, k) IN
    IF i = 0 THEN [hit |-> FALSE, cache |-> c]
    ELSE IF IsStale(c[i], ttl, t) THEN [hit |-> FALSE, cache |-> RemoveAt(c, i)]
    ELSE [hit |-> TRUE, value |-> c[i].value,
          cache |-> Append(RemoveAt(c, i), c[i])]

\* Mutant: a new key at capacity evicts the most recently used entry.
CacheSetEvictingNewest(c, k, v, max, t) ==
    LET i == CacheIndex(c, k)
        base == IF i > 0 THEN RemoveAt(c, i)
                ELSE IF Len(c) >= max THEN SubSeq(c, 1, Len(c) - 1)
                ELSE c
    IN Append(base, [key |-> k, value |-> v, start |-> t])

\* set: overwrite restarts the ttl; a new key at capacity evicts the head.
CacheSet(c, k, v, max, t) ==
    LET i == CacheIndex(c, k)
        base == IF i > 0 THEN RemoveAt(c, i)
                ELSE IF Len(c) >= max THEN Tail(c)
                ELSE c
    IN Append(base, [key |-> k, value |-> v, start |-> t])

\* Mutant: clear keeps the most recently used entry.
ClearAllButNewest(c) == IF c = <<>> THEN c ELSE <<c[Len(c)]>>

\* clear
Clear(c) == <<>>

\* size: the entries held, stale ones not yet deleted included.
CacheSize(c) == Len(c)

CacheHas(c, k) == CacheIndex(c, k) > 0
CacheValue(c, k) == c[CacheIndex(c, k)].value

\* ------------------------------------------------------------ job monitor
NoBlock == [blockNumber |-> NULL, transactions |-> <<>>, iterable |-> FALSE]

\* What provider.getBlockWithTransactions may answer: the block, null, a
\* rejection, or a block object whose transactions field cannot be iterated.
ScanAnswers == {"block", "null", "error"}
BatchAnswers == ScanAnswers \cup {"malformed"}

\* Mutant: the block handed back under number b holds the transactions of
\* the block above it.
BlockFromProviderShifted(b, answer) ==
    [blockNumber |-> b,
     transactions |-> IF answer = "block"
                      THEN chain[IF b + 1 \in DOMAIN chain THEN b + 1 ELSE 0]
                      ELSE <<>>,
     iterable |-> (answer = "block")]

BlockFromProvider(b, answer) ==
    [blockNumber |-> b,
     transactions |-> IF answer = "block" THEN chain[b] ELSE <<>>,
     iterable |-> (answer = "block")]

\* job-monitor.ts:123-128: the status checkJobsEfficiently builds.
Status(address, lastWorkedBlock, t) ==
    [address |-> address, lastWorkedBlock |-> lastWorkedBlock,
     isStalled |-> (lastWorkedBlock = NULL), lastChecked |-> t]

\* job-monitor.ts:93-98: the status written when block b matched.
WorkedStatus(address, b, t) ==
    [address |-> address, lastWorkedBlock |-> b, isStalled |-> FALSE,
     lastChecked |-> t]

\* Mutant: the entry written after a scan without match is not marked stalled.
StalledStatusUnmarked(address, t) ==
    [address |-> address, lastWorkedBlock |-> NULL, isStalled |-> FALSE,
     lastChecked |-> t]

\* job-monitor.ts:105-110: the status written after a scan without match.
StalledStatus(address, t) ==
    [address |-> address, lastWorkedBlock |-> NULL, isStalled |-> TRUE,
     lastChecked |-> t]

\* One evaluation: where it stands, the block of its loop, the block it was
\* handed from the cache, its return value, whether the cached status answered
\* it, and whether a fetch of its scan gave no block.
Task(pc, b, held, ret, hit) ==
    [pc |-> pc, blockNumber |-> b, held |-> held, ret |-> ret, hit |-> hit,
     skipped |-> FALSE]

\* job-monitor.ts:83-84 and 104-111: the loop test for block b, then either
\* the stalled write, or getBlockWithTransactions(b) up to its first await.
EnterIteration(addr, from, b, bc, jc, t) ==
    IF b < from
    THEN [task |-> Task("done", b, NoBlock, NULL, FALSE), bc |-> bc,
          jc |-> CacheSet(jc, addr, StalledStatus(addr, t), JOB_CACHE_MAX, t),
          fetch |-> FALSE]
    ELSE LET g == CacheGet(bc, b, BLOCK_CACHE_TTL, t) IN
         IF g.hit
         THEN [task |-> Task("cached", b, g.value, NULL, FALSE),
               bc |-> g.cache, jc |-> jc, fetch |-> FALSE]
         ELSE [task |-> Task("fetching", b, NoBlock, NULL, FALSE),
               bc |-> g.cache, jc |-> jc, fetch |-> TRUE]

\* Mutant: the loop steps down by two.
NextLowerByTwo(b) == b - 2

\* job-monitor.ts:83: blockNumber--
NextLower(b) == b - 1

\* Mutant: a fetch that gave no block fails the scan.
ExamineBlockFailingOnMiss(addr, from, b, block, bc, jc, t) ==
    IF block = NoBlock \/ ~block.iterable
    THEN [task |-> Task("failed", b, NoBlock, NULL, FALSE),
          bc |-> bc, jc |-> jc, fetch |-> FALSE]
    ELSE IF \E k \in 1..Len(block.transactions) :
                Qualifies(block.transactions[k], addr)
    THEN [task |-> Task("done", b, NoBlock, b, FALSE), bc |-> bc,
          jc |-> CacheSet(jc, addr, WorkedStatus(addr, b, t), JOB_CACHE_MAX, t),
          fetch |-> FALSE]
    ELSE EnterIteration(addr, from, NextLower(b), bc, jc, t)

\* job-monitor.ts:85-101: the body of the loop for block b, once
\* getBlockWithTransactions(b) has settled with `block` (NoBlock for null).
ExamineBlock(addr, from, b, block, bc, jc, t) ==
    IF block = NoBlock THEN EnterIteration(addr, from, NextLower(b), bc, jc, t)
    ELSE IF ~block.iterable
    THEN [task |-> Task("failed", b, NoBlock, NULL, FALSE),
          bc |-> bc, jc |-> jc, fetch |-> FALSE]
    ELSE IF \E k \in 1..Len(block.transactions) :
                Qualifies(block.transactions[k], addr)
    THEN [task |-> Task("done", b, NoBlock, b, FALSE), bc |-> bc,
          jc |-> CacheSet(jc, addr, WorkedStatus(addr, b, t), JOB_CACHE_MAX, t),
          fetch |-> FALSE]
    ELSE EnterIteration(addr, from, NextLower(b), bc, jc, t)

\* Mutant: the freshness comparison is turned around.
ServesCachedReversed(status, t) ==
    /\ status.lastWorkedBlock # NULL
    /\ status.lastChecked < t - STATUS_FRESH_MIN

\* Mutant: a fresh cached status is served whatever its verdict.
ServesCachedAlsoStalled(status, t) ==
    status.lastChecked > t - STATUS_FRESH_MIN

\* job-monitor.ts:75-79: the cached status short-circuits the scan.
ServesCached(status, t) ==
    /\ status.lastWorkedBlock # NULL
    /\ status.lastChecked > t - STATUS_FRESH_MIN

\* job-monitor.ts:73-84: getLastWorkedBlock up to its first await.
BeginScan(addr, from, to, bc, jc, t) ==
    LET g == CacheGet(jc, addr, JOB_CACHE_TTL, t) IN
    IF g.hit /\ ServesCached(g.value, t)
    THEN [task |-> Task("done", to, NoBlock, g.value.lastWorkedBlock, TRUE),
          bc |-> bc, jc |-> g.cache, fetch |-> FALSE]
    ELSE EnterIteration(addr, from, to, bc, g.cache, t)

Settled(task) == task.pc \in {"done", "failed"}
N == Len(call.jobs)
Pending == {i \in 1..N : tasks[i].pc = "pending"}
NoResult == [address |-> "", lastWorkedBlock |-> NULL, isStalled |-> FALSE,
             lastChecked |-> NULL]

\* Mutant: the values are collected in the order the tasks settle.
StoreResultAsSettled(res, i, status, settled) ==
    [res EXCEPT ![settled + 1] = status]

\* Promise.all keeps each fulfilment value at the index of its promise;
\* `settled` is the number of tasks that settled before this one.
StoreResult(res, i, status, settled) == [res EXCEPT ![i] = status]

\* The state of the call once task i has moved to `task`: Promise.all rejects
\* with the first rejection and fulfils when every task is done.
CallAfter(i, task) ==
    LET ts == [tasks EXCEPT ![i] = task] IN
    IF call.state # "running" THEN call
    ELSE IF task.pc = "failed" THEN [call EXCEPT !.state = "rejected"]
    ELSE IF \A j \in 1..N : ts[j].pc = "done"
    THEN [call EXCEPT !.state = "returned"]
    ELSE call

\* The access history once key k has been read or stored.
Touch(history, k) == Append(SelectSeq(history, LAMBDA x : x # k), k)

\* One synchronous run of task i, ending in the outcome r; `skip` says that
\* the fetch it resumed from gave no block, `stored` is the block number the
\* run began by storing in the block cache (NULL when it stored none).
Apply(i, r, skip, stored) ==
    /\ blockAccess' =
          LET h == IF stored # NULL THEN Touch(blockAccess, stored)
                   ELSE blockAccess
          IN IF r.task.pc = "cached" THEN Touch(h, r.task.blockNumber) ELSE h
    /\ tasks' = [tasks EXCEPT
                   ![i] = [r.task EXCEPT !.skipped = tasks[i].skipped \/ skip]]
    /\ blockCache' = r.bc
    /\ jobStatusCache' = r.jc
    /\ fetches' = IF r.fetch
                  THEN [fetches EXCEPT ![r.task.blockNumber] = @ + 1]
                  ELSE fetches
    /\ results' = IF r.task.pc = "done"
                  THEN StoreResult(results, i,
                                   Status(call.jobs[i], r.task.ret, now),
                                   Cardinality({j \in 1..N : Settled(tasks[j])}))
                  ELSE results
    /\ outOfOrder' = (outOfOrder \/ (/\ Settled(r.task)
                                      /\ \E j \in 1..(i - 1) : ~Settled(tasks[j])))
    /\ call' = CallAfter(i, r.task)

IdleCall == [kind |-> "none", jobs |-> <<>>, fromBlock |-> 0, toBlock |-> 0,
             state |-> "returned"]
NoPrev == [repeat |-> FALSE, ret |-> NULL, age |-> 0]
Blocks == DOMAIN chain

\* The previous call, as seen by a call that repeats its arguments right
\* after it returned: its result and the age of the verdict it left cached.
Repeats(kind, jobs, from, to) ==
    IF /\ kind = "single" /\ call.kind = "single" /\ call.state = "returned"
       /\ call.jobs = jobs /\ call.fromBlock = from /\ call.toBlock = to
       /\ CacheHas(jobStatusCache, jobs[1])
    THEN [repeat |-> TRUE, ret |-> tasks[1].ret,
          age |-> now - CacheValue(jobStatusCache, jobs[1]).lastChecked]
    ELSE NoPrev

AllSettled == \A i \in 1..N : Settled(tasks[i])

JobLists == UNION {[1..n -> JobAddresses] : n \in 0..MaxJobs}

\* A caller invokes getLastWorkedBlock (kind "single") or checkJobsEfficiently
\* (kind "batch"); the previous call and the tasks it left have settled.
BeginCall(kind, jobs, from, to) ==
    /\ prev' = Repeats(kind, jobs, from, to)
    /\ call' = [kind |-> kind, jobs |-> jobs, fromBlock |-> from, toBlock |-> to,
                state |-> IF jobs = <<>> THEN "returned" ELSE "running"]
    /\ tasks' = [i \in 1..Len(jobs) |-> Task("pending", to, NoBlock, NULL, FALSE)]
    /\ results' = [i \in 1..Len(jobs) |-> NoResult]
    /\ outOfOrder' = FALSE
    /\ fetches' = [b \in Blocks |-> 0]
    /\ UNCHANGED <<strategy, chain, blockCache, jobStatusCache, blockAccess>>

StartCall(kind, jobs, from, to) ==
    /\ AllSettled
    /\ BeginCall(kind, jobs, from, to)
    /\ UNCHANGED <<now, otherThanMonitor>>

GetLastWorkedBlock ==
    \E a \in ScanAddresses, from \in Blocks, to \in Blocks :
        StartCall("single", <<a>>, from, to)

CheckJobsEfficiently ==
    \E jobs \in JobLists, from \in Blocks, to \in Blocks :
        StartCall("batch", jobs, from, to)

\* The caller scans the chain one block per call, each call for a job it has
\* not asked about before, and comes back to block 0 up to MaxRereads times.
ScanOneBlock ==
    \E b \in {0, Len(blockAccess)} :
        /\ b \in Blocks
        /\ \/ b = Len(blockAccess)
           \/ Len(jobStatusCache) - Len(blockAccess) < MaxRereads
        /\ StartCall("single", <<ToString(Len(jobStatusCache))>>, b, b)

\* jobAddresses.map runs each callback, in index order, up to its first await.
StartTask ==
    /\ Pending # {}
    /\ LET i == CHOOSE j \in Pending : \A k \in Pending : j <= k IN
       Apply(i, BeginScan(call.jobs[i], call.fromBlock, call.toBlock,
                          blockCache, jobStatusCache, now), FALSE, NULL)
    /\ UNCHANGED <<strategy, chain, now, prev, otherThanMonitor>>

\* The provider settles the fetch task i awaits (job-monitor.ts:48-64).
ProviderAnswer(answers) ==
    \E i \in 1..N, answer \in answers :
        /\ Pending = {}
        /\ tasks[i].pc = "fetching"
        /\ LET b == tasks[i].blockNumber
               got == answer \in {"block", "malformed"}
               block == IF got THEN BlockFromProvider(b, answer) ELSE NoBlock
               bc == IF got
                     THEN CacheSet(blockCache, b, block, BLOCK_CACHE_MAX, now)
                     ELSE blockCache
           IN Apply(i, ExamineBlock(call.jobs[i], call.fromBlock, b, block,
                                    bc, jobStatusCache, now), ~got,
                    IF got THEN b ELSE NULL)
        /\ UNCHANGED <<strategy, chain, now, prev, otherThanMonitor>>

\* Task i resumes after awaiting a block served from the block cache.
ResumeCached ==
    \E i \in 1..N :
        /\ Pending = {}
        /\ tasks[i].pc = "cached"
        /\ Apply(i, ExamineBlock(call.jobs[i], call.fromBlock,
                                 tasks[i].blockNumber, tasks[i].held,
                                 blockCache, jobStatusCache, now), FALSE, NULL)
        /\ UNCHANGED <<strategy, chain, now, prev, otherThanMonitor>>

\* job-monitor.ts:135-139, called between two calls.
ClearCaches ==
    /\ AllSettled
    /\ blockCache' = Clear(blockCache)
    /\ jobStatusCache' = Clear(jobStatusCache)
    /\ call' = [call EXCEPT !.kind = "clearCaches"]
    /\ prev' = NoPrev
    /\ blockAccess' = <<>>
    /\ UNCHANGED <<strategy, chain, now, tasks, results, outOfOrder, fetches,
                   otherThanMonitor>>

\* Time passes between calls and while a call is suspended at an await.
TickUntil(limit) ==
    /\ Pending = {}
    /\ now < limit
    /\ now' = now + 1
    /\ UNCHANGED <<strategy, chain, blockCache, jobStatusCache, call, tasks,
                   results, outOfOrder, fetches, prev, blockAccess,
                   otherThanMonitor>>

Tick == TickUntil(MaxTime)

\* The clock runs until an entry of either cache written at 0 has expired
\* and an entry written after that has expired as well.
ExpiryHorizon == BLOCK_CACHE_TTL + JOB_CACHE_TTL
TickPastTtl == TickUntil(ExpiryHorizon)

\* ---------------------------------------------------------------- discord
MAX_RETRIES == 3
RETRY_DELAY == 1000

Digits == <<"0", "1", "2", "3", "4", "5", "6", "7", "8", "9">>
DigitValue(c) == (CHOOSE d \in 1..10 : Digits[d] = c) - 1
IsDigit(c) == \E d \in 1..10 : Digits[d] = c

\* The decimal text of a number of seconds, as the server writes the header.
RECURSIVE Decimal(_)
Decimal(n) ==
    IF n < 10 THEN <<Digits[n + 1]>>
    ELSE Append(Decimal(n \div 10), Digits[(n % 10) + 1])

\* parseInt on a header that starts with a digit: the leading digits count.
RECURSIVE ParseDigits(_, _)
ParseDigits(text, acc) ==
    IF text = <<>> \/ ~IsDigit(Head(text)) THEN acc
    ELSE ParseDigits(Tail(text), 10 * acc + DigitValue(Head(text)))
ParseInt(text) == ParseDigits(text, 0)

\* headers.get('retry-after') of a response without the header (null).
NoHeader == <<>>

\* What one POST to the webhook may end in: an HTTP response, or a transport
\* error (fetch or response.text() rejects; status 0 stands for "no status").
HttpResponse(status, retryAfter) ==
    [kind |-> "response", status |-> status, retryAfter |-> retryAfter]
TransportError == [kind |-> "error", status |-> 0, retryAfter |-> NoHeader]
NoResponse == [kind |-> "none", status |-> 0, retryAfter |-> NoHeader]
RetryAfterSeconds == {0, 2, 10}
Answers ==
    {HttpResponse(st, NoHeader) : st \in {200, 401, 403, 404, 429, 500}}
    \cup {HttpResponse(429, Decimal(sec)) : sec \in RetryAfterSeconds}
    \cup {TransportError}

\* response.ok
IsOk(r) == r.kind = "response" /\ r.status >= 200 /\ r.status <= 299

\* Mutant: 404 is taken for a retryable status.
NonRetryableWithout404(status) == status \in {401, 403}

\* discord.ts:349 and 368
NonRetryable(status) == status \in {404, 401, 403}

\* Mutant: every failed attempt ends in the catch block's backoff.
CaughtAnyFailure(r) == TRUE

\* discord.ts:363: the outcomes that reach the catch block without having
\* been thrown at 350: fetch (or response.text()) rejected.  A 5xx answer
\* throws nothing and falls through to line 361.
Caught(r) == r.kind = "error"

\* Mutant: the header's seconds are passed to sleep as milliseconds.
RateLimitDelaySeconds(retryAfter) ==
    IF retryAfter # NoHeader THEN ParseInt(retryAfter) ELSE RETRY_DELAY

\* discord.ts:355-356
RateLimitDelay(retryAfter) ==
    IF retryAfter # NoHeader THEN ParseInt(retryAfter) * 1000 ELSE RETRY_DELAY

\* discord.ts:374
BackoffDelay(attempt) == RETRY_DELAY * attempt

\* Mutant: the loop runs one attempt too many.
MayAttemptOnceMore(attempt) == attempt <= MAX_RETRIES + 1

\* discord.ts:320: the loop test.
MayAttempt(attempt) == attempt <= MAX_RETRIES

\* An error: its class, its statusCode, and the failure causes its message
\* text names (a cause is the answer that failed: its kind and status).
NoError == [name |-> "none", statusCode |-> 0, causes |-> {}]
Cause(r) == <<r.kind, r.status>>
\* discord.ts:342-346 (a DiscordError with the status) and 364 (any Error).
ErrorOf(r) ==
    IF r.kind = "response"
    THEN [name |-> "DiscordError", statusCode |-> r.status, causes |-> {Cause(r)}]
    ELSE [name |-> "Error", statusCode |-> 0, causes |-> {Cause(r)}]
\* discord.ts:400-404: the terminal error's message is built from errorMessage,
\* the message of the original lastError; fallbackError is only logged.
AllFailedError(original) ==
    [name |-> "DiscordError", statusCode |-> 500, causes |-> original.causes]

\* One sendWithRetry call: the attempt of the loop, where it stands ("post":
\* about to POST; "sleep": suspended in sleep(sleepMs); "fallback": the loop
\* is over and sendFallbackMessage is about to run), lastError, the POSTs it
\* made, its last answer and the suspensions since its last POST.
NewFrame ==
    [attempt |-> 1, pc |-> "post", lastError |-> NoError, posts |-> 0,
     lastResp |-> NoResponse, slept |-> <<>>, sleepMs |-> 0]

Top == frames[Len(frames)]
Running == send = "running" /\ frames # <<>>

\* discord.ts:320, the loop's increment and test after attempt f.attempt.
NextAttempt(f) ==
    [f EXCEPT !.attempt = f.attempt + 1,
              !.pc = IF MayAttempt(f.attempt + 1) THEN "post" ELSE "fallback"]

\* discord.ts:317-319: a caller sends an alert.
BeginSend ==
    /\ send' = "running"
    /\ frames' = <<NewFrame>>
    /\ raised' = NoError

SendWithRetry ==
    /\ send # "running"
    /\ BeginSend
    /\ UNCHANGED otherThanDiscord

\* discord.ts:321-378: one POST of the innermost call and what its answer
\* leads to, up to the next await.
PostAnswered(answers) ==
    \E r \in answers :
        /\ Running
        /\ Top.pc = "post"
        /\ LET d == Len(frames)
               f == [Top EXCEPT !.posts = @ + 1, !.lastResp = r, !.slept = <<>>]
           IN
           IF IsOk(r)
           THEN \* every enclosing sendFallbackMessage and sendWithRetry returns
                /\ send' = "returned"
                /\ frames' = [frames EXCEPT ![d] = [f EXCEPT !.pc = "returned"]]
                /\ raised' = NoError
           ELSE IF r.kind = "response" /\ NonRetryable(r.status)
           THEN \* thrown at 350, rethrown at 369; an enclosing
                \* sendFallbackMessage turns it into the terminal error
                /\ send' = "raised"
                /\ frames' = [frames EXCEPT
                                ![d] = [f EXCEPT !.pc = "raised",
                                                 !.lastError = ErrorOf(r)]]
                /\ raised' = IF d = 1 THEN ErrorOf(r)
                             ELSE AllFailedError(frames[1].lastError)
           ELSE IF r.kind = "response" /\ r.status = 429
           THEN /\ frames' = [frames EXCEPT
                                ![d] = [f EXCEPT
                                          !.pc = "sleep",
                                          !.sleepMs = RateLimitDelay(r.retryAfter)]]
                /\ UNCHANGED <<send, raised>>
           ELSE IF ~Caught(r)
           THEN \* any other status: lastError = error, next iteration
                /\ frames' = [frames EXCEPT
                                ![d] = NextAttempt([f EXCEPT !.lastError = ErrorOf(r)])]
                /\ UNCHANGED <<send, raised>>
           ELSE \* transport error, caught at 363
                /\ frames' = [frames EXCEPT
                                ![d] = IF f.attempt < MAX_RETRIES
                                       THEN [f EXCEPT
                                               !.lastError = ErrorOf(r),
                                               !.pc = "sleep",
                                               !.sleepMs = BackoffDelay(f.attempt)]
                                       ELSE NextAttempt([f EXCEPT !.lastError = ErrorOf(r)])]
                /\ UNCHANGED <<send, raised>>
        /\ UNCHANGED otherThanDiscord

Post == PostAnswered(Answers)

\* The timer of sleep(ms) fires (discord.ts:358 or 376) and the loop goes on.
Wake ==
    /\ Running
    /\ Top.pc = "sleep"
    /\ LET f == [Top EXCEPT !.slept = Append(@, Top.sleepMs),
                            !.lastError = IF Top.lastResp.kind = "response"
                                          THEN ErrorOf(Top.lastResp) ELSE @]
       IN frames' = [frames EXCEPT ![Len(frames)] = NextAttempt(f)]
    /\ UNCHANGED <<send, raised, otherThanDiscord>>

\* discord.ts:382-385, 389-397 and 306-313: the loop ended without success;
\* sendFallbackMessage sends a plain message through sendSimpleMessage, which
\* calls sendWithRetry again.  Only the outermost call and the innermost one
\* decide what follows, so past MaxDepth the new call takes the place of the
\* innermost frame.
Fallback ==
    /\ Running
    /\ Top.pc = "fallback"
    /\ Top.lastError # NoError
    /\ frames' = IF Len(frames) < MaxDepth
                  THEN Append(frames, NewFrame)
                  ELSE [frames EXCEPT ![Len(frames)] = NewFrame]
    /\ UNCHANGED <<send, raised, otherThanDiscord>>


\* -------------------------------------------------------------- sequencer
JOBS_CACHE_MAX == 10
JOBS_CACHE_TTL == 10
SEQ_BATCH_SIZE == 20

\* The address the contract of SpecSequencer lists at index i.
JobAddressAt(i) == <<"job", i>>
RegistrySizes == {0, 1, 2, MaxRegistry}
Registries == {[k \in 1..n |-> JobAddressAt(k - 1)] : n \in RegistrySizes}

NoLookups(reg) == [i \in 0..(Len(reg) - 1) |-> 0]
IdleSeq ==
    [kind |-> "none", state |-> "idle", i |-> 0, allJobs |-> <<>>,
     ret |-> <<>>, hit |-> FALSE, countOk |-> FALSE, failed |-> {},
     repeat |-> FALSE, prevRet |-> <<>>, age |-> 0]
SeqSettled == seq.state \in {"idle", "returned", "rejected"}

\* Math.min
Min(a, b) == IF a < b THEN a ELSE b

\* Mutant: the batch that starts at i takes every remaining index.
BatchIndicesToTheEnd(i, jobCount) == i..(jobCount - 1)

\* part_003:65 and 71: the indices i .. end - 1 of the batch that starts at i.
BatchIndices(i, jobCount) == i..(Min(i + SEQ_BATCH_SIZE, jobCount) - 1)

\* Mutant: the next batch starts on the last index of the one before.
NextBatchStartOverlapping(i) == i + SEQ_BATCH_SIZE - 1

\* part_003:65: i += batchSize
NextBatchStart(i) == i + SEQ_BATCH_SIZE

\* The lookups of S are requested: contract.jobAt(j) is called for each.
Requested(S) == [j \in DOMAIN lookups |-> IF j \in S THEN lookups[j] + 1 ELSE lookups[j]]

\* The addresses of the indices of S that did not fail, in index order.
RECURSIVE Fulfilled(_, _, _)
Fulfilled(lo, hi, failed) ==
    IF lo > hi THEN <<>>
    ELSE (IF lo \in failed THEN <<>> ELSE <<registry[lo + 1]>>)
         \o Fulfilled(lo + 1, hi, failed)

\* The lookups of a batch that may fail: none, its first, its last, or both.
FailureSets(S) ==
    IF S = {} THEN {{}}
    ELSE LET lo == CHOOSE j \in S : \A k \in S : j <= k
             hi == CHOOSE j \in S : \A k \in S : j >= k
         IN {{}, {lo}, {hi}, {lo, hi}}

\* The call before this one, as seen by a call of the same method that
\* follows it: the list it returned and the age of the entry it left cached.
SeqRepeats(kind, key) ==
    IF seq.kind = kind /\ seq.state = "returned" /\ CacheHas(jobsCache, key)
    THEN [repeat |-> TRUE, prevRet |-> seq.ret,
          age |-> now - jobsCache[CacheIndex(jobsCache, key)].start]
    ELSE [repeat |-> FALSE, prevRet |-> <<>>, age |-> 0]

\* part_003:51-56 and 83-88: the cache check both methods begin with.  An
\* empty cached list is truthy and is served like any other.
BeginGetAll(kind, key) ==
    /\ SeqSettled
    /\ LET g == CacheGet(jobsCache, key, JOBS_CACHE_TTL, now)
           r == SeqRepeats(kind, key)
           base == [IdleSeq EXCEPT !.kind = kind, !.repeat = r.repeat,
                                   !.prevRet = r.prevRet, !.age = r.age]
       IN /\ jobsCache' = g.cache
          /\ seq' = IF g.hit
                    THEN [base EXCEPT !.state = "returned", !.ret = g.value,
                                      !.hit = TRUE]
                    ELSE [base EXCEPT !.state = "count"]
    /\ lookups' = NoLookups(registry)
    /\ UNCHANGED <<registry, now>>

GetAllJobs ==
    /\ BeginGetAll("getAllJobs", "all-jobs")
    /\ UNCHANGED otherThanSequencer

GetAllJobsOptimized ==
    /\ BeginGetAll("getAllJobsOptimized", "all-jobs-optimized")
    /\ UNCHANGED otherThanSequencer

\* The call ends by caching and returning the list (part_003:77-78, 115-118).
SeqReturn(s, key, list) ==
    /\ jobsCache' = CacheSet(jobsCache, key, list, JOBS_CACHE_MAX, now)
    /\ seq' = [s EXCEPT !.state = "returned", !.ret = list, !.allJobs = list]

\* contract.numJobs() settles (part_003:58-59 and 90).
NumJobsSettles(ok) ==
    /\ seq.state = "count"
    /\ LET jobCount == Len(registry)
           s == [seq EXCEPT !.countOk = ok]
       IN
       IF ~ok
       THEN /\ seq' = [s EXCEPT !.state = "rejected"]
            /\ UNCHANGED <<jobsCache, lookups>>
       ELSE IF seq.kind = "getAllJobs"
       THEN IF 0 < jobCount
            THEN \* the first batch is requested, then await Promise.all
                 /\ seq' = [s EXCEPT !.state = "batch", !.i = 0]
                 /\ lookups' = Requested(BatchIndices(0, jobCount))
                 /\ UNCHANGED jobsCache
            ELSE /\ SeqReturn(s, "all-jobs", <<>>)
                 /\ UNCHANGED lookups
       ELSE IF jobCount = 0
            THEN \* part_003:93-95 returns without caching
                 /\ seq' = [s EXCEPT !.state = "returned", !.ret = <<>>]
                 /\ UNCHANGED <<jobsCache, lookups>>
            ELSE /\ seq' = [s EXCEPT !.state = "fanout"]
                 /\ lookups' = Requested(0..(jobCount - 1))
                 /\ UNCHANGED jobsCache
    /\ UNCHANGED <<registry, now>>

\* part_003:74-75: await Promise.all(batch) resumes getAllJobs, with the
\* addresses of the batch or with the rejection of a lookup of `failed`.
BatchSettles(failed) ==
    /\ seq.kind = "getAllJobs" /\ seq.state = "batch"
    /\ LET jobCount == Len(registry)
           batch == BatchIndices(seq.i, jobCount)
           s == [seq EXCEPT !.failed = @ \cup failed]
       IN
       /\ failed \subseteq batch
       /\ IF failed # {}
          THEN /\ seq' = [s EXCEPT !.state = "rejected"]
               /\ UNCHANGED <<jobsCache, lookups>>
          ELSE LET allJobs == seq.allJobs
                              \o Fulfilled(seq.i, Min(seq.i + SEQ_BATCH_SIZE,
                                                      jobCount) - 1, {})
                   i == NextBatchStart(seq.i)
               IN IF i < jobCount
                  THEN /\ seq' = [s EXCEPT !.i = i, !.allJobs = allJobs]
                       /\ lookups' = Requested(BatchIndices(i, jobCount))
                       /\ UNCHANGED jobsCache
                  ELSE /\ SeqReturn([s EXCEPT !.i = i], "all-jobs", allJobs)
                       /\ UNCHANGED lookups
    /\ UNCHANGED <<registry, now>>

\* part_003:104-118: await Promise.allSettled resumes getAllJobsOptimized.
FanoutSettles(failed) ==
    /\ seq.kind = "getAllJobsOptimized" /\ seq.state = "fanout"
    /\ failed \subseteq 0..(Len(registry) - 1)
    /\ SeqReturn([seq EXCEPT !.failed = failed], "all-jobs-optimized",
                 Fulfilled(0, Len(registry) - 1, failed))
    /\ UNCHANGED <<registry, now, lookups>>

\* The RPC endpoint answers what the call awaits.
NumJobsAnswer ==
    /\ \E ok \in BOOLEAN : NumJobsSettles(ok)
    /\ UNCHANGED otherThanSequencer

BatchAnswer ==
    /\ \E failed \in FailureSets(BatchIndices(seq.i, Len(registry))) :
           BatchSettles(failed)
    /\ UNCHANGED otherThanSequencer

FanoutAnswer ==
    /\ \E failed \in FailureSets(0..(Len(registry) - 1)) :
           FanoutSettles(failed)
    /\ UNCHANGED otherThanSequencer

\* Time passes between and during the calls, half a ttl at a time.
TickSequencer ==
    /\ now < MaxTime * (JOBS_CACHE_TTL \div 2)
    /\ now' = now + (JOBS_CACHE_TTL \div 2)
    /\ UNCHANGED <<sequencerVars, otherThanSequencer>>

\* ---------------------------------------------------------------- handler
\* BLOCKS_TO_CHECK values of the configuration (the chain of SpecHandler has
\* two blocks); the environment is taken to be valid, so loadConfig returns.
BlocksToCheck == {0, 1}

\* What the webhook answers to the alerts of a handler run.
HandlerAnswers == {HttpResponse(st, NoHeader) : st \in {200, 401, 500}}

NoRunResult == [statusCode |-> 0, success |-> FALSE]
IdleRun ==
    [pc |-> "idle", blocksToCheck |-> 0, currentBlock |-> 0, fromBlock |-> 0,
     allJobs |-> <<>>, statuses |-> <<>>, monitored |-> FALSE, sent |-> <<>>,
     stalledSent |-> <<>>, alertRange |-> <<>>, error |-> NoError,
     failedStep |-> "none",
     alertOutcome |-> "none", result |-> NoRunResult]

\* The error a rejected RPC read or a rejected call of `step` raises: none of
\* the services throws JobMonitorError or RpcError.
StepError(step) == [name |-> "Error", statusCode |-> 0, causes |-> {<<step, 0>>}]

\* part_004:77-101
ErrorDetails(error) ==
    IF error.name = "JobMonitorError"
    THEN [type |-> "JobMonitor", message |-> error.causes, statusCode |-> 500]
    ELSE IF error.name = "RpcError"
    THEN [type |-> "RPC", message |-> error.causes, statusCode |-> 502]
    ELSE IF error.name = "DiscordError"
    THEN [type |-> "Discord", message |-> error.causes, statusCode |-> 503]
    ELSE [type |-> "Unknown", message |-> {<<"An unexpected error occurred", 0>>},
          statusCode |-> 500]

\* Mutant: a failed error alert replaces the error of the result.
FailureResultOfAlert(error, alertError) ==
    [statusCode |-> ErrorDetails(IF alertError # NoError THEN alertError
                                 ELSE error).statusCode,
     success |-> FALSE,
     error |-> ErrorDetails(IF alertError # NoError THEN alertError ELSE error)]

\* part_004:112-121: the result of a failed run; alertError is what
\* sendSystemErrorAlert raised (NoError when it returned).
FailureResult(error, alertError) ==
    [statusCode |-> ErrorDetails(error).statusCode, success |-> FALSE,
     error |-> ErrorDetails(error)]

\* part_004:41-42
StalledOf(statuses) == SelectSeq(statuses, LAMBDA st : st.isStalled)
HealthyOf(statuses) == SelectSeq(statuses, LAMBDA st : ~st.isStalled)

\* discord.ts:71 and 114: the "Checked Range" field of the stalled-jobs alert
\* and of the healthy report, computed from the currentBlock argument.
CheckedRangeShown(currentBlock) == <<currentBlock - 10, currentBlock - 1>>

\* Mutant: the stalled-jobs alert is sent whatever the statuses are.
AlertAlwaysStalled(stalledJobs) == "stalled"

\* part_004:47-51
AlertFor(stalledJobs) == IF Len(stalledJobs) > 0 THEN "stalled" ELSE "healthy"

\* part_004:56-70
SuccessResult(r, stalledJobs, healthyJobs) ==
    [statusCode |-> 200, success |-> TRUE,
     summary |-> [totalJobs |-> Len(r.allJobs),
                  stalledJobs |-> Len(stalledJobs),
                  healthyJobs |-> Len(healthyJobs),
                  currentBlock |-> r.currentBlock,
                  checkedBlocks |-> <<r.fromBlock, r.currentBlock>>]]

\* part_004:72-107: the catch block up to the await of sendSystemErrorAlert.
Catch(r, step, error) ==
    /\ run' = [r EXCEPT !.pc = "errorAlert", !.error = error,
                        !.failedStep = step, !.sent = Append(@, "error")]
    /\ BeginSend

\* part_004:8-26: an invocation, up to the await of getCurrentBlock.  The
\* services it constructs are new: their caches are empty.
Handler ==
    /\ run.pc = "idle"
    /\ \E k \in BlocksToCheck :
           run' = [IdleRun EXCEPT !.pc = "height", !.blocksToCheck = k]
    /\ UNCHANGED <<monitorVars, discordVars, sequencerVars>>

\* part_004:26-32: getCurrentBlock settles; then getAllJobs runs up to its
\* first await.
CurrentBlockAnswer ==
    /\ run.pc = "height"
    /\ \E ok \in BOOLEAN :
           IF ok
           THEN LET head == Cardinality(Blocks) - 1 IN
                /\ run' = [run EXCEPT !.pc = "jobs", !.currentBlock = head,
                                      !.fromBlock = head - run.blocksToCheck]
                /\ BeginGetAll("getAllJobs", "all-jobs")
                /\ UNCHANGED discordVars
           ELSE /\ Catch(run, "getCurrentBlock", StepError("getCurrentBlock"))
                /\ UNCHANGED <<now, sequencerVars>>
    /\ UNCHANGED <<strategy, chain, blockCache, jobStatusCache, call, tasks, results,
                   outOfOrder, fetches, prev, blockAccess>>

\* part_004:32-38: getAllJobs settled; then checkJobsEfficiently starts.
JobsSettled ==
    /\ run.pc = "jobs"
    /\ seq.state \in {"returned", "rejected"}
    /\ IF seq.state = "returned"
       THEN /\ run' = [run EXCEPT !.pc = "monitor", !.allJobs = seq.ret]
            /\ BeginCall("batch", seq.ret, run.fromBlock, run.currentBlock)
            /\ UNCHANGED discordVars
       ELSE /\ Catch(run, "getAllJobs", StepError("getAllJobs"))
            /\ UNCHANGED <<strategy, chain, blockCache, jobStatusCache, call, tasks,
                           results, outOfOrder, fetches, prev, blockAccess>>
    /\ UNCHANGED <<now, sequencerVars>>

\* part_004:36-51: checkJobsEfficiently settled; the statuses are split and
\* the alert is chosen, up to the await of its send.
MonitorSettled ==
    /\ run.pc = "monitor"
    /\ call.state \in {"returned", "rejected"}
    /\ IF call.state = "returned"
       THEN /\ run' = [run EXCEPT
                         !.pc = "alert", !.statuses = results,
                         !.monitored = TRUE,
                         !.sent = Append(@, AlertFor(StalledOf(results))),
                         !.alertRange = CheckedRangeShown(run.currentBlock),
                         !.stalledSent = IF AlertFor(StalledOf(results)) = "stalled"
                                         THEN StalledOf(results) ELSE <<>>]
            /\ BeginSend
       ELSE Catch(run, "checkJobsEfficiently", StepError("checkJobsEfficiently"))
    /\ UNCHANGED <<monitorVars, sequencerVars>>

\* part_004:48-70: the alert's send settled.
AlertSettled ==
    /\ run.pc = "alert"
    /\ send \in {"returned", "raised"}
    /\ IF send = "returned"
       THEN /\ run' = [run EXCEPT
                         !.pc = "returned",
                         !.result = SuccessResult(run, StalledOf(run.statuses),
                                                  HealthyOf(run.statuses))]
            /\ UNCHANGED discordVars
       ELSE Catch(run, "alert", raised)
    /\ UNCHANGED <<monitorVars, sequencerVars>>

\* part_004:104-121: sendSystemErrorAlert settled; its failure is only logged.
ErrorAlertSettled ==
    /\ run.pc = "errorAlert"
    /\ send \in {"returned", "raised"}
    /\ run' = [run EXCEPT !.pc = "returned", !.alertOutcome = send,
                          !.result = FailureResult(run.error, raised)]
    /\ UNCHANGED <<monitorVars, discordVars, sequencerVars>>

\* The webhook answers a POST of the run's alert.
HandlerPost == PostAnswered(HandlerAnswers)


\* ------------------------------------------- strategy-based getLastWorkedBlock
\* lambda.test.ts:171-279: the free function getLastWorkedBlock tries
\* getLastWorkedBlockByTransactions and, when that raises, runs
\* getLastWorkedBlockFallback. Neither uses a cache.
maxBlocks == 10
maxBlocksToCheck == 5
PRIMARY_TIMEOUT_MS == 8000
FALLBACK_TIMEOUT_MS == 10000
NO_TIMER == 0

\* What the race of a fetch against its timer settles with: a block; null
\* (reading block.transactions then throws); a rejection with an Error; the
\* timer's rejection; a rejection with a value that has no string form, on
\* which String(err) in the catch block throws in its turn.
StrategyAnswers == {"block", "null", "error", "timeout", "unprintable"}

IdleStrategy == [phase |-> "idle", jobAddress |-> "", fromBlock |-> 0,
                 toBlock |-> 0, blockNumber |-> NULL, timer |-> NO_TIMER,
                 ret |-> NULL, fellBack |-> FALSE, lastAnswer |-> "none"]

\* lambda.test.ts:198
ActualToBlock(from, to) == Min(to, from + maxBlocks - 1)

\* Mutant: the fallback checks the whole range.
FallbackBlocksUnlimited(from, to) == to - from + 1

\* lambda.test.ts:244
FallbackBlocks(from, to) == Min(maxBlocksToCheck, to - from + 1)

\* lambda.test.ts:216-219 and 262-265
StrategyMatches(b, addr) ==
    \E k \in 1..Len(chain[b]) : Qualifies(chain[b][k], addr)

\* lambda.test.ts:203-213 and 233: the loop test for block b, then the fetch
\* raced against the 8 s timer, or the return of null.
PrimaryIteration(s, b) ==
    IF b >= s.fromBlock
    THEN [s EXCEPT !.phase = "primary", !.blockNumber = b,
                   !.timer = PRIMARY_TIMEOUT_MS]
    ELSE [s EXCEPT !.phase = "returned", !.ret = NULL, !.timer = NO_TIMER]

\* lambda.test.ts:248-260 and 278: the loop test for index i, then the fetch
\* of block toBlock - i raced against the 10 s timer, or the return of null.
FallbackIteration(s, i) ==
    IF i < FallbackBlocks(s.fromBlock, s.toBlock)
    THEN [s EXCEPT !.phase = "secondary", !.blockNumber = s.toBlock - i,
                   !.timer = FALLBACK_TIMEOUT_MS]
    ELSE [s EXCEPT !.phase = "returned", !.ret = NULL, !.timer = NO_TIMER]

\* lambda.test.ts:225-229 and 271-275: the catch block of one iteration
\* raises itself when the caught value cannot be turned into a string.
CatchRaises(answer) == answer = "unprintable"

\* lambda.test.ts:171-180: a caller invokes getLastWorkedBlock; the call
\* before it has settled.
StrategyCall ==
    \E a \in ScanAddresses, from \in Blocks, to \in Blocks :
        /\ strategy.phase \in {"idle", "returned", "raised"}
        /\ strategy' = PrimaryIteration(
                           [IdleStrategy EXCEPT !.jobAddress = a,
                                                !.fromBlock = from,
                                                !.toBlock = to],
                           ActualToBlock(from, to))
        /\ UNCHANGED otherThanStrategy

\* The race of the awaited fetch settles (lambda.test.ts:213-229, 260-275,
\* and the wrapper's catch at 181-186).
StrategyAnswer ==
    \E answer \in StrategyAnswers :
        /\ strategy.phase \in {"primary", "secondary"}
        /\ LET s == [strategy EXCEPT !.lastAnswer = answer]
               b == s.blockNumber
           IN strategy' =
                IF answer = "block" /\ StrategyMatches(b, s.jobAddress)
                THEN [s EXCEPT !.phase = "returned", !.ret = b,
                               !.timer = NO_TIMER]
                ELSE IF answer = "block" \/ ~CatchRaises(answer)
                THEN IF s.phase = "primary"
                     THEN PrimaryIteration(s, b - 1)
                     ELSE FallbackIteration(s, (s.toBlock - b) + 1)
                ELSE IF s.phase = "primary"
                THEN FallbackIteration([s EXCEPT !.fellBack = TRUE], 0)
                ELSE [s EXCEPT !.phase = "raised", !.timer = NO_TIMER]
        /\ UNCHANGED otherThanStrategy

InitService ==
    /\ strategy = IdleStrategy
    /\ now = 0
    /\ blockCache = <<>>
    /\ jobStatusCache = <<>>
    /\ call = IdleCall
    /\ tasks = <<>>
    /\ results = <<>>
    /\ outOfOrder = FALSE
    /\ fetches = [b \in DOMAIN chain |-> 0]
    /\ prev = NoPrev
    /\ blockAccess = <<>>

InitDiscordService ==
    /\ send = "idle"
    /\ frames = <<>>
    /\ raised = NoError

\* part_003:31-39, on a contract that lists the jobs of reg.
InitSequencerService(reg) ==
    /\ registry = reg
    /\ seq = IdleSeq
    /\ jobsCache = <<>>
    /\ lookups = NoLookups(reg)

InitOthers ==
    /\ InitSequencerService(<<>>)
    /\ run = IdleRun

\* Sequential getLastWorkedBlock calls on one service, with the clock running.
Init ==
    /\ chain \in [0..MaxBlock -> BlockContents]
    /\ InitService
    /\ InitDiscordService
    /\ InitOthers

Next ==
    \/ GetLastWorkedBlock
    \/ StartTask
    \/ ProviderAnswer(ScanAnswers)
    \/ ResumeCached
    \/ ClearCaches
    \/ Tick

Spec == Init /\ [][Next]_vars

\* The program's own steps are taken whenever they can be; nothing makes the
\* provider settle the promise of a fetch, which is awaited without a timer
\* (job-monitor.ts:48).
SpecLive == Spec /\ WF_vars(StartTask) /\ WF_vars(ResumeCached)

\* checkJobsEfficiently batches on one service, over a chain of two blocks.
InitBatch ==
    /\ chain \in [{0, 1} -> BlockContents]
    /\ InitService
    /\ InitDiscordService
    /\ InitOthers

NextBatch ==
    \/ CheckJobsEfficiently
    \/ StartTask
    \/ ProviderAnswer(BatchAnswers)
    \/ ResumeCached

SpecBatch == InitBatch /\ [][NextBatch]_vars

\* One-block scans along a chain longer than the block cache, the clock
\* standing still and the provider answering every fetch.
InitCapacity ==
    /\ chain = [b \in 0..(BLOCK_CACHE_MAX + 1) |-> <<TxCreate>>]
    /\ InitService
    /\ InitDiscordService
    /\ InitOthers

NextCapacity ==
    \/ ScanOneBlock
    \/ StartTask
    \/ ProviderAnswer({"block"})
    \/ ResumeCached

SpecCapacity == InitCapacity /\ [][NextCapacity]_vars

\* Calls of the strategy-based getLastWorkedBlock on a chain of twelve
\* blocks, at most one of which holds work on the job.
StrategyChains ==
    {[b \in 0..MaxStrategyBlock |->
        IF b = w THEN <<TxOtherA, TxWorkA>> ELSE <<TxCreate, TxWorkB>>] :
     w \in (-1)..MaxStrategyBlock}

InitStrategy ==
    /\ chain \in StrategyChains
    /\ InitService
    /\ InitDiscordService
    /\ InitOthers

NextStrategy ==
    \/ StrategyCall
    \/ StrategyAnswer

SpecStrategy == InitStrategy /\ [][NextStrategy]_vars

\* getLastWorkedBlock calls on one service while the clock runs past both
\* ttls.
InitExpiry ==
    /\ chain \in [0..MaxBlock -> BlockContents]
    /\ InitService
    /\ InitDiscordService
    /\ InitOthers

NextExpiry ==
    \/ GetLastWorkedBlock
    \/ StartTask
    \/ ProviderAnswer(ScanAnswers)
    \/ ResumeCached
    \/ TickPastTtl

SpecExpiry == InitExpiry /\ [][NextExpiry]_vars

\* Alerts sent through one DiscordService.
InitDiscord ==
    /\ chain = [b \in {0} |-> <<>>]
    /\ InitService
    /\ InitDiscordService
    /\ InitOthers

NextDiscord ==
    \/ SendWithRetry
    \/ Post
    \/ Wake
    \/ Fallback

SpecDiscord == InitDiscord /\ [][NextDiscord]_vars

\* getAllJobs and getAllJobsOptimized calls on one SequencerService.
InitSequencer ==
    /\ chain = [b \in {0} |-> <<>>]
    /\ InitService
    /\ InitDiscordService
    /\ \E reg \in Registries : InitSequencerService(reg)
    /\ run = IdleRun

NextSequencer ==
    \/ GetAllJobs
    \/ GetAllJobsOptimized
    \/ NumJobsAnswer
    \/ BatchAnswer
    \/ FanoutAnswer
    \/ TickSequencer

SpecSequencer == InitSequencer /\ [][NextSequencer]_vars

\* One invocation of the handler, on a chain of two blocks whose sequencer
\* lists up to MaxJobs jobs.
InitHandler ==
    /\ chain \in [{0, 1} -> BlockContents]
    /\ InitService
    /\ InitDiscordService
    /\ \E reg \in JobLists : InitSequencerService(reg)
    /\ run = IdleRun

NextHandler ==
    \/ Handler
    \/ CurrentBlockAnswer
    \/ NumJobsAnswer
    \/ BatchAnswer
    \/ JobsSettled
    \/ StartTask
    \/ ProviderAnswer(BatchAnswers)
    \/ ResumeCached
    \/ MonitorSettled
    \/ HandlerPost
    \/ Fallback
    \/ AlertSettled
    \/ ErrorAlertSettled

SpecHandler == InitHandler /\ [][NextHandler]_vars

\* Every request is answered and every continuation runs.
SpecHandlerLive == SpecHandler /\ WF_vars(NextHandler)

\* ================================================================== claims
\* The single getLastWorkedBlock call of Spec, once it has settled.
ScanJob == call.jobs[1]
ScanReturned == call.kind = "single" /\ call.state = "returned"
ScanRet == tasks[1].ret
QualifyingBlocks(addr, from, to) ==
    {b \in Blocks : /\ from <= b /\ b <= to
                    /\ \E k \in 1..Len(chain[b]) : Qualifies(chain[b][k], addr)}
ScanQualifying == QualifyingBlocks(ScanJob, call.fromBlock, call.toBlock)
RECURSIVE FetchesUpTo(_)
FetchesUpTo(b) == IF b \notin Blocks THEN 0 ELSE fetches[b] + FetchesUpTo(b - 1)
TotalFetches == FetchesUpTo(Cardinality(Blocks) - 1)
CachedStatusIs(addr, lastWorkedBlock) ==
    /\ CacheHas(jobStatusCache, addr)
    /\ CacheValue(jobStatusCache, addr).lastWorkedBlock = lastWorkedBlock
    /\ CacheValue(jobStatusCache, addr).isStalled = (lastWorkedBlock = NULL)

\* C1: when exactly one block B of [fromBlock, toBlock] holds a qualifying
\* transaction for the address, getLastWorkedBlock returns B and the cached
\* status of the address is then {isStalled: false, lastWorkedBlock: B}.
\* Stated for the calls in which the provider answered every fetch with the
\* block; the cached verdict of an earlier call over another range breaks it.
C1_ReturnsTheWorkedBlock ==
    (ScanReturned /\ ~tasks[1].skipped /\ Cardinality(ScanQualifying) = 1)
        => \A b \in ScanQualifying :
               ScanRet = b /\ CachedStatusIs(ScanJob, b)

\* C2: when no block of [fromBlock, toBlock] holds a qualifying transaction
\* for the address, getLastWorkedBlock returns null and the cached status of
\* the address is then {isStalled: true, lastWorkedBlock: null}.
C2_ReturnsNullWhenNoWork ==
    (ScanReturned /\ ScanQualifying = {})
        => (ScanRet = NULL /\ CachedStatusIs(ScanJob, NULL))

\* C3: a checkJobsEfficiently call that returns hands back one status per
\* input address, output[i].address = input[i], in whatever order the
\* evaluations settled; the empty list gives the empty result.
C3_ResultsAlignedWithInput ==
    (call.kind = "batch" /\ call.state = "returned")
        => /\ DOMAIN results = 1..N
           /\ \A i \in 1..N : /\ results[i] # NoResult
                              /\ results[i].address = call.jobs[i]
C3_Witness ==
    /\ call.kind = "batch" /\ call.state = "returned"
    /\ N = 2 /\ call.jobs[1] # call.jobs[2]
    /\ outOfOrder

\* C4 as claimed: a getLastWorkedBlock call that repeats the address and the
\* range of the call before it, less than the cache TTL after that call's
\* verdict was cached, returns the same result and makes no provider call,
\* after a non-stalled and after a stalled first result.
WithinTtl == prev.repeat /\ prev.age < JOB_CACHE_TTL
C4_RepeatAlwaysServedWithoutProvider ==
    (ScanReturned /\ WithinTtl)
        => (ScanRet = prev.ret /\ TotalFetches = 0)

\* C4 as amended: after a non-stalled first result the repeated call returns
\* the same block and makes no provider call; after a stalled first result it
\* is not answered from the job-status cache (it scans the range again).
C4_RepeatServedWhenNotStalled ==
    (call.kind = "single" /\ WithinTtl /\ Pending = {})
        => /\ prev.ret # NULL =>
                (ScanReturned /\ ScanRet = prev.ret /\ TotalFetches = 0)
           /\ prev.ret = NULL => ~tasks[1].hit
C4_Witness ==
    /\ ScanReturned /\ WithinTtl /\ prev.ret # NULL
    /\ prev.age > 0

\* C5: every non-stalled status a checkJobsEfficiently call returns has
\* fromBlock <= lastWorkedBlock <= toBlock, whatever calls came before.
C5_VerdictInsideRange ==
    (call.kind = "batch" /\ call.state = "returned")
        => \A i \in 1..N :
               ~results[i].isStalled =>
                   /\ call.fromBlock <= results[i].lastWorkedBlock
                   /\ results[i].lastWorkedBlock <= call.toBlock

\* C6: an evaluation that raises inside checkJobsEfficiently is turned into
\* a stalled status with the error; the batch call itself never raises, and
\* it returns once every evaluation has settled.
C6_FailureAbsorbed ==
    call.kind = "batch"
        => /\ call.state # "rejected"
           /\ AllSettled => call.state = "returned"

\* C7: getLastWorkedBlock with fromBlock > toBlock is rejected: it does not
\* return "no match" and leaves no stalled status for the address.
C7_InvalidRangeRejected ==
    (call.kind = "single" /\ call.fromBlock > call.toBlock /\ Pending = {})
        => /\ call.state = "rejected"
           /\ ~CachedStatusIs(ScanJob, NULL)

\* C8: the evaluations of one checkJobsEfficiently call that are under way at
\* the same time never outnumber BATCH_SIZE, whatever value it is configured
\* to (the default is 10).
InFlight == Cardinality({i \in 1..N : ~Settled(tasks[i]) /\ tasks[i].pc # "pending"})
BatchSizes == 1..DEFAULT_BATCH_SIZE
C8_InFlightWithinBatchSize ==
    call.kind = "batch" => \A size \in BatchSizes : InFlight <= size

\* C9: each sendWithRetry call POSTs its message at most 3 times, and once a
\* POST is answered 2xx the call has returned: no POST, suspension or fallback
\* follows.
C9_AtMostThreePostsAndStopOnSuccess ==
    \A d \in 1..Len(frames) :
        /\ frames[d].posts <= MAX_RETRIES
        /\ IsOk(frames[d].lastResp) =>
              /\ d = Len(frames)
              /\ frames[d].pc = "returned"
              /\ frames[d].slept = <<>>
              /\ send = "returned"
C9_Witness ==
    /\ send = "returned"
    /\ Top.posts = MAX_RETRIES
    /\ Top.lastResp.status = 200

\* C10: after a 429 answer whose retry-after header says s seconds, the call
\* is suspended once, for s * 1000 ms, before it goes on to its next attempt;
\* no backoff suspension comes on top.
C10_RateLimitSuspension ==
    \A d \in 1..Len(frames), sec \in RetryAfterSeconds :
        frames[d].lastResp = HttpResponse(429, Decimal(sec)) =>
            \/ /\ frames[d].pc = "sleep"
               /\ frames[d].sleepMs = sec * 1000
               /\ frames[d].slept = <<>>
            \/ /\ frames[d].pc \in {"post", "fallback"}
               /\ frames[d].slept = <<sec * 1000>>
C10_Witness ==
    /\ Running
    /\ Top.lastResp = HttpResponse(429, Decimal(2))
    /\ Top.pc = "post"
    /\ Top.attempt = 2
    /\ Top.slept = <<2000>>

\* C11: an attempt answered 401, 403 or 404 ends the sendWithRetry call with a
\* DiscordError of that status at once: the call makes no further POST, is
\* never suspended and sends no fallback.
C11_FatalStatusRaisesAtOnce ==
    \A d \in 1..Len(frames) :
        (frames[d].lastResp.kind = "response"
         /\ frames[d].lastResp.status \in {401, 403, 404}) =>
            /\ d = Len(frames)
            /\ send = "raised"
            /\ frames[d].pc = "raised"
            /\ frames[d].slept = <<>>
            /\ frames[d].lastError.name = "DiscordError"
            /\ frames[d].lastError.statusCode = frames[d].lastResp.status
            /\ d = 1 => raised = frames[d].lastError
C11_Witness ==
    /\ send = "raised"
    /\ Len(frames) = 1
    /\ Top.posts = 1
    /\ Top.lastResp.status = 404

\* C12: after attempt k < 3 failed with a transport error or with a non-2xx
\* status other than 429/401/403/404, the call is suspended for
\* RETRY_DELAY * k ms before attempt k + 1.
BackoffFailure(r) ==
    \/ r.kind = "error"
    \/ r.kind = "response" /\ ~IsOk(r) /\ r.status \notin {429, 401, 403, 404}
C12_BackoffBeforeNextAttempt ==
    \A d \in 1..Len(frames) :
        BackoffFailure(frames[d].lastResp) =>
            \/ /\ frames[d].pc = "sleep"
               /\ frames[d].attempt < MAX_RETRIES
               /\ frames[d].sleepMs = RETRY_DELAY * frames[d].attempt
            \/ /\ frames[d].pc = "post"
               /\ frames[d].slept = <<RETRY_DELAY * (frames[d].attempt - 1)>>
            \/ frames[d].pc = "fallback"

\* C13: after an attempt answered 5xx the next attempt follows with no
\* suspension in between.
C13_ServerErrorRetriedWithoutSleep ==
    \A d \in 1..Len(frames) :
        (frames[d].lastResp.kind = "response"
         /\ frames[d].lastResp.status >= 500 /\ frames[d].lastResp.status <= 599) =>
            /\ frames[d].pc \in {"post", "fallback"}
            /\ frames[d].slept = <<>>
            /\ frames[d].attempt = frames[d].posts + 1
C13_Witness ==
    /\ Running
    /\ Len(frames) = 1
    /\ Top.lastResp.status = 500
    /\ Top.pc = "post"
    /\ Top.attempt = 3
    /\ Top.slept = <<>>

\* C14: a call whose 3 attempts all failed retryably sends one fallback
\* plain-text message and no second one, whatever the webhook answers next.
FallbackMessagesPosted ==
    Cardinality({d \in 2..Len(frames) : frames[d].posts > 0})
C14_ExactlyOneFallbackMessage ==
    /\ FallbackMessagesPosted <= 1
    /\ (Len(frames) >= 1 /\ send \in {"returned", "raised"}
        /\ frames[1].attempt > MAX_RETRIES) => FallbackMessagesPosted = 1

\* C15: when the 3 attempts failed and the fallback send failed too, the call
\* raises a terminal DiscordError that carries the original failure cause and
\* the cause of the fallback's failure.
C15_TerminalErrorCarriesBothCauses ==
    (send = "raised" /\ Len(frames) > 1) =>
        /\ raised.name = "DiscordError"
        /\ frames[1].lastError.causes \subseteq raised.causes
        /\ Top.lastError.causes \subseteq raised.causes

\* The getAllJobs call of SpecSequencer, once it has returned.
AllJobsReturned == seq.kind = "getAllJobs" /\ seq.state = "returned"
SeqWithinTtl == seq.repeat /\ seq.age < JOBS_CACHE_TTL
NoLookup == \A j \in DOMAIN lookups : lookups[j] = 0

\* C16: getAllJobs returns the addresses of the indices 0..n-1 in ascending
\* order and requests each index exactly once; a getAllJobs call that follows
\* within the cache TTL returns the same list and requests no index.
C16_AllJobsInOrderOnceThenCached ==
    AllJobsReturned =>
        /\ ~seq.hit =>
              /\ seq.ret = registry
              /\ \A j \in DOMAIN lookups : lookups[j] = 1
        /\ SeqWithinTtl => (seq.hit /\ seq.ret = seq.prevRet /\ NoLookup)
C16_Witness ==
    /\ AllJobsReturned
    /\ SeqWithinTtl /\ seq.age > 0
    /\ Len(seq.ret) > SEQ_BATCH_SIZE

\* C17: in getAllJobs and in getAllJobsOptimized, an index whose lookup fails
\* is left out and the call returns the other addresses in index order; the
\* call fails only when numJobs could not be read.
C17_FailedLookupsDropped ==
    /\ (seq.state = "returned" /\ ~seq.hit) =>
           seq.ret = Fulfilled(0, Len(registry) - 1, seq.failed)
    /\ seq.state = "rejected" => ~seq.countOk

\* The stalled-jobs alerts and healthy reports a run has sent so far.
MonitoringAlerts == SelectSeq(run.sent, LAMBDA a : a \in {"stalled", "healthy"})

\* C18: a handler run whose monitoring completed sends exactly one of the
\* stalled-jobs alert and the healthy report: the stalled-jobs alert exactly
\* when some returned status is stalled, with just the stalled statuses; and
\* the summary it returns has totalJobs = stalledJobs + healthyJobs.
C18_OneAlertMatchingTheStatuses ==
    run.monitored =>
        /\ Len(MonitoringAlerts) = 1
        /\ MonitoringAlerts[1] = "stalled"
              <=> \E i \in 1..Len(run.statuses) : run.statuses[i].isStalled
        /\ MonitoringAlerts[1] = "stalled" =>
              /\ \A i \in 1..Len(run.stalledSent) : run.stalledSent[i].isStalled
              /\ Len(run.stalledSent)
                   = Cardinality({i \in 1..Len(run.statuses) :
                                     run.statuses[i].isStalled})
              /\ run.stalledSent = StalledOf(run.statuses)
        /\ run.result.success =>
              /\ run.result.statusCode = 200
              /\ run.result.summary.totalJobs
                   = run.result.summary.stalledJobs
                     + run.result.summary.healthyJobs
              /\ run.result.summary.totalJobs = Len(registry)
C18_Witness ==
    /\ run.pc = "returned" /\ run.result.success
    /\ run.sent = <<"stalled">>
    /\ run.result.summary.stalledJobs = 1
    /\ run.result.summary.healthyJobs = 1

\* C19: when reading the current height or the job list fails, the run sends
\* no stalled-jobs alert and no healthy report, attempts one system-error
\* alert, and returns a failure result whose status code and error details
\* come from the failure alone, whether the alert was delivered or raised.
C19_RootFailureReported ==
    run.failedStep \in {"getCurrentBlock", "getAllJobs"} =>
        /\ run.sent = <<"error">>
        /\ ~run.monitored
        /\ run.pc = "returned" =>
              /\ run.alertOutcome \in {"returned", "raised"}
              /\ ~run.result.success
              /\ run.result.statusCode = 500
              /\ run.result.error = ErrorDetails(StepError(run.failedStep))
C19_Witness ==
    /\ run.pc = "returned"
    /\ run.failedStep = "getAllJobs"
    /\ run.alertOutcome = "raised"
    /\ raised.name = "DiscordError"

\* C20: every handler run eventually returns its result, when every request
\* to the RPC endpoint and to the webhook is answered or fails.
C20_EveryRunReturns == (run.pc # "idle") ~> (run.pc = "returned")

\* C21: once clearCaches has run, whatever scans came before it, the block
\* cache and the job-status cache both report size 0.
C21_ClearCachesEmptiesBoth ==
    call.kind = "clearCaches" =>
        /\ CacheSize(blockCache) = 0
        /\ CacheSize(jobStatusCache) = 0
C21_Witness ==
    /\ call.kind = "clearCaches"
    /\ Len(tasks) = 1 /\ tasks[1].ret # NULL /\ ~tasks[1].hit
    /\ CacheSize(blockCache) = 0
    /\ CacheSize(jobStatusCache) = 0

\* C22: every JobStatus held by the job-status cache and every JobStatus a
\* checkJobsEfficiently call has produced has isStalled exactly when its
\* lastWorkedBlock is null.
StalledIffNoBlock(st) == st.isStalled <=> (st.lastWorkedBlock = NULL)
C22_StalledIffNoWorkedBlock ==
    /\ \A k \in 1..Len(jobStatusCache) : StalledIffNoBlock(jobStatusCache[k].value)
    /\ call.kind = "batch" =>
          \A i \in 1..Len(results) :
              results[i] # NoResult => StalledIffNoBlock(results[i])
C22_Witness ==
    /\ call.kind = "batch" /\ call.state = "returned" /\ N = 2
    /\ results[1].isStalled /\ ~results[2].isStalled
    /\ \E k \in 1..Len(jobStatusCache) : jobStatusCache[k].value.isStalled
    /\ \E k \in 1..Len(jobStatusCache) : ~jobStatusCache[k].value.isStalled

\* The keys of a cache, and the n most recent keys of an access history.
CachedKeys(c) == {c[i].key : i \in 1..Len(c)}
MostRecent(history, n) ==
    {history[i] : i \in (Len(history) - Min(n, Len(history)) + 1)..Len(history)}

HeldWithin(c, k, v, ttl, t) ==
    \E i \in 1..Len(c) :
        /\ c[i].key = k
        /\ c[i].value = v
        /\ t - c[i].start <= ttl

\* C24: an expired entry is never served, however recently it was read: a
\* call answered by the job-status cache found there a status written at most
\* 2 minutes earlier, and a block handed out by the block cache was stored
\* there at most 5 minutes earlier.
C24_ExpiredNeverServed ==
    [][\A i \in (DOMAIN tasks) \cap (DOMAIN tasks') :
          /\ (tasks'[i].hit /\ ~tasks[i].hit) =>
                \E k \in 1..Len(jobStatusCache) :
                    /\ jobStatusCache[k].key = call.jobs[i]
                    /\ jobStatusCache[k].value.lastWorkedBlock = tasks'[i].ret
                    /\ now - jobStatusCache[k].start <= JOB_CACHE_TTL
          /\ (tasks'[i].pc = "cached" /\ tasks[i] # tasks'[i]) =>
                HeldWithin(blockCache', tasks'[i].blockNumber, tasks'[i].held,
                           BLOCK_CACHE_TTL, now)]_vars

\* A call repeats the one that returned a worked block; both the verdict and
\* the block it left behind, read again more than once since, have expired
\* and been dropped, and the block is fetched anew.
C24_Witness ==
    /\ prev.repeat /\ prev.ret # NULL
    /\ prev.age > BLOCK_CACHE_TTL
    /\ call.state = "running"
    /\ tasks[1].pc = "fetching"
    /\ tasks[1].blockNumber \in {blockAccess[k] : k \in 1..Len(blockAccess)}
    /\ ~CacheHas(blockCache, tasks[1].blockNumber)
    /\ ~CacheHas(jobStatusCache, call.jobs[1])

\* The transactions of the model that are work on a job, listed one by one:
\* TxWorkA is sent to "A" and TxWorkB to "b", both with the work selector.
IsWorkOn(tx, addr) ==
    \/ tx = TxWorkA /\ addr \in {"a", "A"}
    \/ tx = TxWorkB /\ addr \in {"b", "B"}
WorkedBlocks(addr, from, to) ==
    {b \in Blocks : /\ from <= b /\ b <= to
                    /\ \E k \in 1..Len(chain[b]) : IsWorkOn(chain[b][k], addr)}
Highest(S) == IF S = {} THEN NULL ELSE CHOOSE b \in S : \A c \in S : c <= b

\* C25: a transaction qualifies exactly when its recipient equals the job
\* address up to letter case and its data starts with the work selector; a
\* transaction with another selector, to another address or without
\* recipient never does. A scan that fetched every block it asked for and was
\* not answered from the job-status cache returns the highest block of its
\* range holding such a transaction, passing over the unrelated blocks above.
C25_MatchesRecipientAndSelector ==
    /\ \A tx \in {TxWorkA, TxWorkB, TxOtherA, TxCreate} :
          \A addr \in {"a", "A", "b", "B"} :
              Qualifies(tx, addr) <=> IsWorkOn(tx, addr)
    /\ (ScanReturned /\ ~tasks[1].hit /\ ~tasks[1].skipped)
          => ScanRet = Highest(WorkedBlocks(ScanJob, call.fromBlock,
                                            call.toBlock))

\* The higher block holds a contract creation and work on another job, the
\* lower one work on this job: the scan of both returns the lower one.
C25_Witness ==
    /\ ScanReturned /\ ~tasks[1].hit /\ ~tasks[1].skipped
    /\ call.fromBlock = 0 /\ call.toBlock = 1
    /\ chain[1] = <<TxCreate, TxWorkB>>
    /\ chain[0] = <<TxOtherA, TxWorkA>>
    /\ ScanRet = 0

\* Block b exists and holds work on the job at addr.
HoldsWorkOn(b, addr) ==
    /\ b \in Blocks
    /\ \E k \in 1..Len(chain[b]) : IsWorkOn(chain[b][k], addr)

\* C26: no false positive. A block number an evaluation returns, a status of
\* the result carries or the job-status cache holds for an address is the
\* number of a block with a qualifying transaction to that address, whatever
\* fetches failed on the way.
C26_ReturnedBlockHoldsWork ==
    /\ \A i \in 1..Len(tasks) :
          tasks[i].ret # NULL => HoldsWorkOn(tasks[i].ret, call.jobs[i])
    /\ \A i \in 1..Len(results) :
          (results[i] # NoResult /\ results[i].lastWorkedBlock # NULL)
              => HoldsWorkOn(results[i].lastWorkedBlock, results[i].address)
    /\ \A k \in 1..Len(jobStatusCache) :
          jobStatusCache[k].value.lastWorkedBlock # NULL
              => HoldsWorkOn(jobStatusCache[k].value.lastWorkedBlock,
                             jobStatusCache[k].key)

\* The fetch of block 1, which holds work on the job, failed; the
\* evaluation went on and returned block 0, which holds work on it too.
C26_Witness ==
    /\ call.kind = "batch" /\ call.state = "returned"
    /\ \E i \in 1..N :
          /\ tasks[i].skipped /\ ~tasks[i].hit
          /\ tasks[i].ret = 0
          /\ HoldsWorkOn(1, call.jobs[i])
          /\ call.toBlock = 1
          /\ results[i].lastWorkedBlock = 0

\* Task i, awaiting block b in the pre-state, goes on in the post-state with
\* the next lower block of its range, or ends the scan without match when
\* there is none.
GoesOnBelow(i, b) ==
    \/ /\ b - 1 >= call.fromBlock
       /\ tasks'[i].pc \in {"fetching", "cached"}
       /\ tasks'[i].blockNumber = b - 1
    \/ /\ b - 1 < call.fromBlock
       /\ tasks'[i].pc = "done"
       /\ tasks'[i].ret = NULL

\* C27: a fetch that fails (the provider rejects or answers null) never fails
\* getLastWorkedBlock: the block is not cached and the scan goes on with the
\* next lower block.
C27_FailedFetchSkipsBlock ==
    [][/\ call'.state # "rejected"
       /\ \A i \in (DOMAIN tasks) \cap (DOMAIN tasks') :
             LET b == tasks[i].blockNumber IN
             /\ tasks'[i].pc # "failed"
             /\ (tasks'[i].skipped /\ ~tasks[i].skipped)
                   => (tasks[i].pc = "fetching" /\ ~CacheHas(blockCache', b))
             /\ (/\ tasks[i].pc = "fetching" /\ tasks'[i] # tasks[i]
                 /\ tasks'[i].pc # "pending"
                 /\ ~CacheHas(blockCache', b))
                   => (tasks'[i].skipped /\ GoesOnBelow(i, b))]_vars

\* The fetch of block 1 failed and left nothing in the block cache; the scan
\* went on to block 0 and returned it.
C27_Witness ==
    /\ ScanReturned /\ tasks[1].skipped
    /\ call.fromBlock = 0 /\ call.toBlock = 1
    /\ ~CacheHas(blockCache, 1)
    /\ CacheHas(blockCache, 0)
    /\ ScanRet = 0

\* C29: within one scan the blocks are examined in strictly descending order
\* from toBlock to fromBlock: the first block asked for is toBlock, the block
\* asked for after block b is b - 1, never one below fromBlock, the scan ends
\* without match only after fromBlock, no block is fetched twice, and nothing
\* is examined once a block has matched.
C29_DescendingEachBlockOnce ==
    [][call'.kind = "single" =>
         /\ \A b \in Blocks : fetches'[b] <= 1
         /\ \A i \in (DOMAIN tasks) \cap (DOMAIN tasks') :
               LET b == tasks[i].blockNumber
                   examining == tasks'[i].pc \in {"fetching", "cached"}
               IN
               /\ examining =>
                     /\ call.fromBlock <= tasks'[i].blockNumber
                     /\ tasks'[i].blockNumber <= call.toBlock
               /\ (tasks[i].pc = "pending" /\ examining)
                     => tasks'[i].blockNumber = call.toBlock
               /\ (/\ tasks[i].pc \in {"fetching", "cached"}
                   /\ tasks'[i] # tasks[i] /\ examining)
                     => tasks'[i].blockNumber = b - 1
               /\ (/\ tasks[i].pc \in {"fetching", "cached"}
                   /\ tasks'[i].pc = "done" /\ tasks'[i].ret # NULL)
                     => tasks'[i].ret = b
               /\ (/\ tasks[i].pc \in {"fetching", "cached"}
                   /\ tasks'[i].pc = "done" /\ tasks'[i].ret = NULL)
                     => b = call.fromBlock
               /\ (Settled(tasks[i]) /\ tasks'[i] # tasks[i])
                     => tasks'[i].pc = "pending"]_vars

\* A scan of [0, 1] without match: block 1 was fetched, then block 0, each
\* once, and the scan returned null.
C29_Witness ==
    /\ ScanReturned /\ ~tasks[1].hit
    /\ call.fromBlock = 0 /\ call.toBlock = 1
    /\ fetches[1] = 1 /\ fetches[0] = 1
    /\ ScanRet = NULL

\* C28: a getLastWorkedBlock call over a finite range always settles, also
\* when the provider never answers a fetch.
C28_ScanTerminates ==
    (call.kind = "single" /\ call.state = "running")
        ~> (call.state # "running")

\* C30: the secondary strategy runs when, and only when, the primary one
\* raised. It asks only for blocks among the 5 highest of the range, where
\* the primary asks for blocks of a window of 10, and races each fetch
\* against 10 s where the primary allows 8 s. When it has gone through its
\* window without match, the call returns null; it does not raise.
C30_FallbackSmallerWindowLongerTimeout ==
    /\ [][LET primaryRaises == /\ strategy.phase = "primary"
                               /\ strategy' # strategy
                               /\ strategy'.lastAnswer = "unprintable"
          IN /\ primaryRaises <=> (strategy'.fellBack /\ ~strategy.fellBack)
             /\ primaryRaises =>
                   /\ strategy'.phase = "secondary"
                   /\ strategy'.blockNumber = strategy.toBlock]_vars
    /\ [](/\ strategy.phase = "secondary" =>
               /\ strategy.fellBack
               /\ strategy.fromBlock <= strategy.blockNumber
               /\ strategy.blockNumber <= strategy.toBlock
               /\ strategy.toBlock - strategy.blockNumber < 5
               /\ strategy.timer = 10000
          /\ strategy.phase = "primary" =>
               /\ ~strategy.fellBack
               /\ strategy.blockNumber - strategy.fromBlock < 10
               /\ strategy.timer = 8000
          /\ (/\ strategy.fellBack
              /\ strategy.phase \in {"returned", "raised"}
              /\ strategy.lastAnswer \in {"block", "null", "error", "timeout"}
              /\ strategy.ret = NULL)
                => /\ strategy.phase = "returned"
                   /\ strategy.blockNumber =
                        IF strategy.toBlock - strategy.fromBlock >= 5
                        THEN strategy.toBlock - 4 ELSE strategy.fromBlock)

\* The primary strategy raised on a range of more than five blocks; the
\* secondary went down from toBlock to toBlock - 4, found no work and the
\* call returned null.
C30_Witness ==
    /\ strategy.fellBack
    /\ strategy.phase = "returned"
    /\ strategy.ret = NULL
    /\ strategy.lastAnswer = "timeout"
    /\ strategy.toBlock - strategy.fromBlock > 5
    /\ strategy.blockNumber = strategy.toBlock - 4

\* C31: the primary strategy asks for toBlock first, whatever the length of
\* the range, so that work in toBlock is found.
C31_PrimaryStartsAtToBlock ==
    [][(strategy.phase \notin {"primary", "secondary"}
          /\ strategy'.phase = "primary")
         => strategy'.blockNumber = strategy'.toBlock]_vars

\* The POST requests of the nested sendWithRetry calls 1..d of one send.
RECURSIVE PostsUpTo(_)
PostsUpTo(d) == IF d = 0 THEN 0 ELSE frames[d].posts + PostsUpTo(d - 1)

\* C32: one top-level alert send issues at most 3 POST requests for the
\* alert and at most 3 for the fallback message, whatever the webhook
\* answers.
C32_AtMostSixPosts == PostsUpTo(Len(frames)) <= 2 * MAX_RETRIES

\* C33: in a checkJobsEfficiently batch that returned and in which every
\* fetch gave its block, the provider was asked for each block number at
\* most once.
C33_EachBlockFetchedOncePerBatch ==
    (/\ call.kind = "batch" /\ call.state = "returned"
     /\ \A i \in 1..N : ~tasks[i].skipped)
        => \A b \in Blocks : fetches[b] <= 1

\* The job-status cache holds a stalled verdict for addr.
CachedStalled(addr) ==
    CacheHas(jobStatusCache, addr)
        /\ CacheValue(jobStatusCache, addr).lastWorkedBlock = NULL

\* C34: a cached stalled verdict is never returned without a rescan. A call
\* for an address whose cached entry has lastWorkedBlock = null is not
\* answered from the cache: it starts examining the range at toBlock, and
\* when it returns, the entry holds the verdict it returned, written then.
C34_StalledVerdictRescanned ==
    [][\A i \in (DOMAIN tasks) \cap (DOMAIN tasks') :
          /\ tasks'[i].hit => tasks'[i].ret # NULL
          /\ (/\ tasks[i].pc = "pending" /\ tasks'[i].pc # "pending"
              /\ CachedStalled(call.jobs[i]))
                => /\ ~tasks'[i].hit
                   /\ call.fromBlock <= call.toBlock =>
                         /\ tasks'[i].pc \in {"fetching", "cached"}
                         /\ tasks'[i].blockNumber = call.toBlock
          /\ (/\ tasks[i].pc # "done" /\ tasks'[i].pc = "done"
              /\ ~tasks'[i].hit)
                => \E k \in 1..Len(jobStatusCache') :
                      /\ jobStatusCache'[k].key = call.jobs[i]
                      /\ jobStatusCache'[k].value.lastWorkedBlock
                            = tasks'[i].ret
                      /\ jobStatusCache'[k].value.lastChecked = now]_vars

\* The call repeats, within the freshness window, a call that returned
\* null after a failed fetch; it scanned again, found the worked block and
\* left it in the cache.
C34_Witness ==
    /\ ScanReturned /\ WithinTtl
    /\ prev.ret = NULL
    /\ ~tasks[1].hit
    /\ ScanRet # NULL
    /\ TotalFetches > 0
    /\ CachedStatusIs(ScanJob, ScanRet)

\* The entries of a cache, whatever their recency order.
Entries(c) == {c[i] : i \in 1..Len(c)}

\* C35: a call answered from a fresh non-stalled cache entry asks the
\* provider for nothing and leaves the entries of both caches as they were,
\* the entry's lastChecked and ttl included; the verdict it serves was
\* written less than 2 minutes earlier.
C35_CacheServedCallChangesNothing ==
    [][\A i \in (DOMAIN tasks) \cap (DOMAIN tasks') :
          (tasks'[i].hit /\ ~tasks[i].hit) =>
              /\ fetches' = fetches
              /\ blockCache' = blockCache
              /\ Entries(jobStatusCache') = Entries(jobStatusCache)
              /\ \E e \in Entries(jobStatusCache) :
                    /\ e.key = call.jobs[i]
                    /\ e.value.lastWorkedBlock = tasks'[i].ret
                    /\ now - e.value.lastChecked < 2
                    /\ e.start = e.value.lastChecked]_vars

\* A verdict written one minute ago is served: nothing was fetched and the
\* entry still carries the time of the scan that produced it.
C35_Witness ==
    /\ ScanReturned /\ tasks[1].hit
    /\ TotalFetches = 0
    /\ CachedStatusIs(ScanJob, ScanRet)
    /\ now - CacheValue(jobStatusCache, ScanJob).lastChecked = 1
    /\ blockCache # <<>>

\* The lookups of the running getAllJobs call that may not have settled yet:
\* those requested since the call last resumed from an await.
LookupsInFlight ==
    IF seq.kind = "getAllJobs" /\ seq.state = "batch"
    THEN {j \in DOMAIN lookups : j >= seq.i /\ lookups[j] > 0}
    ELSE {}

\* C36: a getAllJobs call never has more than 20 index lookups in flight,
\* and it requests the lookups of a batch only once every lookup of the
\* batches before it has completed and delivered its address.
C36_TwentyLookupsInFlightBatchByBatch ==
    /\ [](Cardinality(LookupsInFlight) <= 20)
    /\ [][(/\ seq'.kind = "getAllJobs"
           /\ \E j \in DOMAIN lookups : lookups'[j] > lookups[j])
            => /\ seq'.state = "batch"
               /\ seq'.failed = {}
               /\ seq'.allJobs = [k \in 1..seq'.i |-> registry[k]]
               /\ \A j \in DOMAIN lookups :
                     lookups'[j] > lookups[j] => j >= seq'.i]_vars

\* The first batch of 20 has completed and the lookup of index 20, the only
\* one of the second batch, is in flight.
C36_Witness ==
    /\ seq.kind = "getAllJobs" /\ seq.state = "batch"
    /\ seq.i = 20
    /\ Len(seq.allJobs) = 20
    /\ LookupsInFlight = {20}

\* C37: every job list the SequencerService cache holds is complete: it has
\* one address for each index of the count read by the call that stored it.
C37_CachedJobListsComplete ==
    \A k \in 1..Len(jobsCache) : jobsCache[k].value = registry

\* C38: in a run that sends a stalled-jobs alert or a healthy report, the
\* checked range the alert shows is the range [fromBlock, toBlock] the run
\* passed to checkJobsEfficiently and reports in its summary.
C38_AlertShowsTheCheckedRange ==
    run.monitored =>
        /\ run.alertRange = <<call.fromBlock, call.toBlock>>
        /\ (run.pc = "returned" /\ run.result.success)
              => run.result.summary.checkedBlocks = run.alertRange

====
